---- MODULE Spec2Model ----
(***************************************************************************)
(* A model of i3configger: the partial (fragment) selection engine of      *)
(* partials.py, the persisted state and its message protocol of config.py  *)
(* and the change watcher and build definitions of lib.py.                 *)
(*                                                                         *)
(* Python values are modelled as follows.  A dict is a function whose      *)
(* domain is its key set.  A list is a sequence.  None is the string       *)
(* "None".  An exception is the value of a field `raised` of the result    *)
(* of the call ("" when the call returned).                                *)
(***************************************************************************)
EXTENDS Integers, Sequences, FiniteSets, TLC

VARIABLES
    prts,       \* the partials found on disk: list of Partial, sorted by name
    selector,   \* the dict object handed to select() (select mutates it)
    selector0,  \* history: the content of that dict before the first call
    excludes,   \* the excludes argument of select()
    selOut,     \* the outcome of the last select() call
    ncalls,     \* number of select() calls made with this selector object
    statePath,  \* the state file: [exists, text]
    last,       \* history: the last message handled and how it ended
    config,     \* the builddef sections of the ini file, in file order
    maxerrors,  \* settings.maxerrors, handed to I3Configger
    buildDefs,  \* the BuildDef objects made from the sections
    targets,    \* what each build definition's target file holds
    built,      \* history: per definition, the build() runs completed
    wpc,        \* where the program is: new, ready, watching, stopped
    fatal,      \* the exception that ended the program ("" for none)
    errors,     \* I3Configger.errors
    now,        \* time.time(), in ticks of TickLength
    lastEvent,  \* history: the last event of the watch loop and its outcome
    held,       \* the state dict a caller of freeze() and fetch() holds
    loaded,     \* what the caller's last fetch() returned
    docpc,      \* the caller's position: held, frozen, fetched
    writing,    \* the write_text() of a build under way: [def, out, before]
    observed,   \* what a reader of a target file read last: [def, content]
    outcome     \* history: the last build() call, [def, raised, about, before]

selectVars == <<selector, selector0, excludes, selOut, ncalls>>
stateVars == <<statePath, last>>
watchVars == <<config, maxerrors, buildDefs, targets, built, wpc, fatal,
               errors, now, lastEvent>>
docVars == <<held, loaded, docpc>>
ioVars == <<writing, observed, outcome>>
vars == <<prts, selectVars, stateVars, watchVars, docVars, ioVars>>

None == "None"
NoError == ""

(***************************************************************************)
(* dict helpers                                                            *)
(***************************************************************************)
EmptyDict == [k \in {} |-> None]
dictDel(d, k) == [x \in (DOMAIN d) \ {k} |-> d[x]]
dictSet(d, k, v) == [x \in (DOMAIN d) \cup {k} |-> IF x = k THEN v ELSE d[x]]
dictGet(d, k) == IF k \in DOMAIN d THEN d[k] ELSE None

(***************************************************************************)
(* partials.py: Partial                                                    *)
(*                                                                         *)
(* A file is [name, selectors, marker]: `selectors` is path.stem split on  *)
(* '.', `marker` says whether the file's text holds DEFAULT_MARKER.        *)
(* PoolFiles lists the files the model draws from in the order of their    *)
(* names ("bar.default.conf" < "base.conf" < "scheme.dark.conf" <          *)
(* "scheme.light.conf" < "scheme.mono.conf"), the order Partial.__lt__     *)
(* sorts by.                                                               *)
(***************************************************************************)
DEFAULT_NAME == "default"

PoolFiles ==
    << [name |-> "bar.default.conf",  selectors |-> <<"bar", "default">>],
       [name |-> "base.conf",         selectors |-> <<"base">>],
       [name |-> "scheme.dark.conf",  selectors |-> <<"scheme", "dark">>],
       [name |-> "scheme.light.conf", selectors |-> <<"scheme", "light">>],
       [name |-> "scheme.mono.conf",  selectors |-> <<"scheme", "mono">>] >>

NPool == Len(PoolFiles)

\* Partial.__init__: the fields derived from the file name
conditional(p) == Len(p.selectors) > 1
key(p) == IF conditional(p) THEN p.selectors[1] ELSE None
value(p) == IF conditional(p) THEN p.selectors[2] ELSE None

\* Partial.isDefault
isDefault(p) ==
    IF value(p) = DEFAULT_NAME THEN TRUE
    ELSE IF p.marker THEN TRUE
    ELSE FALSE

\* Partial.__lt__: by name; the rank of a name is its place in PoolFiles
NameRank(name) == CHOOSE i \in 1..NPool : PoolFiles[i].name = name
lt(p, q) == NameRank(p.name) < NameRank(q.name)

\* sorted(): the list of the members of a set of partials, smallest first
RECURSIVE sorted(_)
sorted(S) ==
    IF S = {} THEN << >>
    ELSE LET m == CHOOSE p \in S : \A q \in S \ {p} : lt(p, q)
         IN  <<m>> \o sorted(S \ {m})

\* partials.create: one Partial per file found, sorted
\* (`found` is the set of pool indexes present, `marked` those whose text
\* holds the default marker)
create(found, marked) ==
    sorted({ [name |-> PoolFiles[i].name,
              selectors |-> PoolFiles[i].selectors,
              marker |-> (i \in marked)] : i \in found })

(***************************************************************************)
(* partials.py: select                                                     *)
(***************************************************************************)
\* the inner function _select(): append the partial and consume its key
\* from the selector dict, whichever branch selected it
_select(st, partial) ==
    [selected |-> Append(st.selected, partial),
     selector |-> IF key(partial) \in DOMAIN st.selector
                  THEN dictDel(st.selector, key(partial))
                  ELSE st.selector]

\* selectStep looking at the excludes only after the selector
selectStep_excludes_last(st, partial, excl, conditionals, defaults) ==
    IF conditional(partial)
    THEN IF /\ st.selector # EmptyDict
            /\ key(partial) \in DOMAIN st.selector
            /\ value(partial) = dictGet(st.selector, key(partial))
         THEN _select(st, partial)
         ELSE IF defaults /\ isDefault(partial)
              THEN _select(st, partial)
              ELSE st
    ELSE IF conditionals
         THEN _select(st, partial)
         ELSE st

\* one pass of the body of `for partial in partials`
selectStep(st, partial, excl, conditionals, defaults) ==
    IF conditional(partial)
    THEN IF excl # {} /\ key(partial) \in excl
         THEN st
         ELSE IF /\ st.selector # EmptyDict
                 /\ key(partial) \in DOMAIN st.selector
                 /\ value(partial) = dictGet(st.selector, key(partial))
              THEN _select(st, partial)
              ELSE IF defaults /\ isDefault(partial)
                   THEN _select(st, partial)
                   ELSE st
    ELSE IF conditionals
         THEN _select(st, partial)
         ELSE st

RECURSIVE selectLoop(_, _, _, _, _, _)
selectLoop(st, partials, i, excl, conditionals, defaults) ==
    IF i > Len(partials) THEN st
    ELSE selectLoop(selectStep(st, partials[i], excl, conditionals, defaults),
                    partials, i + 1, excl, conditionals, defaults)

\* select returning the list whatever its length
select_list(partials, sel, excl, conditionals, defaults) ==
    LET st == selectLoop([selected |-> << >>, selector |-> sel],
                         partials, 1, excl, conditionals, defaults)
    IN  IF st.selector # EmptyDict
        THEN [raised |-> "ConfigError", selector |-> st.selector,
              selected |-> << >>, bare |-> FALSE]
        ELSE [raised |-> NoError, selector |-> st.selector,
              selected |-> st.selected, bare |-> FALSE]

\* select(partials, selector, excludes, conditionals, defaults): the result
\* is [raised, selector (the dict as the call leaves it), selected (the
\* list built), bare (a single Partial is returned instead of a list)]
select(partials, sel, excl, conditionals, defaults) ==
    LET st == selectLoop([selected |-> << >>, selector |-> sel],
                         partials, 1, excl, conditionals, defaults)
    IN  IF st.selector # EmptyDict
        THEN [raised |-> "ConfigError", selector |-> st.selector,
              selected |-> << >>, bare |-> FALSE]
        ELSE [raised |-> NoError, selector |-> st.selector,
              selected |-> st.selected, bare |-> (Len(st.selected) = 1)]

(***************************************************************************)
(* config.py: State, fetch, freeze                                         *)
(*                                                                         *)
(* A token of a message is either a Python str, Str(s), or one of the      *)
(* (name, number of arguments) tuples of class State, Tup(name, n).  The   *)
(* two never compare equal, as in Python.                                  *)
(***************************************************************************)
Str(s) == [str |-> s]
Tup(n, k) == [name |-> n, nargs |-> k]

I3STATUS == "i3status"
SELECT_NEXT == Tup("select-next", 1)
SELECT_PREVIOUS == Tup("select-previous", 1)
SELECT == Tup("select", 2)
SET == Tup("set", 2)
_ALL == <<SELECT_NEXT, SELECT_PREVIOUS, SELECT, SET>>
DEL == "del"

\* str.lower() on the values the model draws from: "DEL" is the only one
\* with upper case letters
lower(v) == IF v = "DEL" THEN "del" ELSE v

\* the state dict held in memory: dict(select=..., set=...)
Doc(sel, st) == [select |-> sel, set |-> st]

\* the keys the model draws from, in the order of str comparison
SortedStrings == <<"bar", "host", "scheme", "select", "set">>

\* the keys of a dict as sort_keys=True lists them
sortedKeys(K) == SelectSeq(SortedStrings, LAMBDA s : s \in K)

\* dumpMapping writing every value in lower case
dumpMapping_lower(d) ==
    LET ks == sortedKeys(DOMAIN d)
    IN  [i \in DOMAIN ks |-> [name |-> ks[i], string |-> lower(d[ks[i]])]]

\* json.dump of a dict of str: the members of the JSON object, in key
\* order, each a name and the JSON string of the value
dumpMapping(d) ==
    LET ks == sortedKeys(DOMAIN d)
    IN  [i \in DOMAIN ks |-> [name |-> ks[i], string |-> d[ks[i]]]]

\* json.dump(obj, f, sort_keys=True, indent=4) of a dict of dicts of str:
\* the text is the list of the members of the outer object, in key order,
\* each a name and the members of the inner object
json_dump(obj) ==
    LET ks == sortedKeys(DOMAIN obj)
    IN  [i \in DOMAIN ks |->
            [name |-> ks[i], object |-> dumpMapping(obj[ks[i]])]]

\* json.load of an object: the members are put into a dict one after the
\* other, a later member of a name replacing an earlier one
RECURSIVE loadMapping(_, _)
loadMapping(members, n) ==
    IF n = 0 THEN EmptyDict
    ELSE dictSet(loadMapping(members, n - 1),
                 members[n].name, members[n].string)

RECURSIVE loadObject(_, _)
loadObject(text, n) ==
    IF n = 0 THEN EmptyDict
    ELSE dictSet(loadObject(text, n - 1), text[n].name,
                 loadMapping(text[n].object, Len(text[n].object)))

json_load(text) == loadObject(text, Len(text))

\* the state file: whether it exists, and the text it holds
AbsentDoc == [exists |-> FALSE, text |-> << >>]

\* freeze(path, obj): the file is opened for writing (created when absent)
\* and holds the JSON text of the object
freeze(obj) == [exists |-> TRUE, text |-> json_dump(obj)]

\* fetch(path): ConfigError when there is no file, else the parsed text
fetch(file) ==
    IF ~file.exists
    THEN [raised |-> "ConfigError", state |-> None]
    ELSE [raised |-> NoError, state |-> json_load(file.text)]

\* partials.find(prts, key, value): the place in prts of the first partial
\* with this key and value, 0 for the None it returns when there is none
find(partials, k, v) ==
    LET hits == { i \in DOMAIN partials :
                     key(partials[i]) = k /\ value(partials[i]) = v }
    IN  IF hits = {} THEN 0
        ELSE CHOOSE i \in hits : \A j \in hits : i <= j

\* State.populate_initial_state: the loop reads prt.needsSelection, an
\* attribute class Partial does not define, so the first partial raises
\* AttributeError before anything is frozen; with no partial at all the
\* empty state is frozen.  The result is [raised, state, file].
populate_initial_state(file, partials) ==
    IF Len(partials) > 0
    THEN [raised |-> "AttributeError", state |-> None, file |-> file]
    ELSE LET state == Doc(EmptyDict, EmptyDict)
         IN  [raised |-> NoError, state |-> state, file |-> freeze(state)]

\* State.fetch_state
fetch_state(file, partials) ==
    IF ~file.exists
    THEN populate_initial_state(file, partials)
    ELSE LET payload == fetch(file)
         IN  [raised |-> payload.raised, state |-> payload.state,
              file |-> file]

\* State.get_spec(message): the number of arguments of the command whose
\* name equals the token, MessageError when no name does
RECURSIVE get_spec_from(_, _)
get_spec_from(i, message) ==
    IF i > Len(_ALL)
    THEN [raised |-> "MessageError", spec |-> 0]
    ELSE IF Str(_ALL[i].name) = message
         THEN [raised |-> NoError, spec |-> _ALL[i].nargs]
         ELSE get_spec_from(i + 1, message)

\* get_spec without its raise: an unknown name falls off the loop
get_spec_no_raise(message) ==
    IF get_spec_from(1, message).raised # NoError
    THEN [raised |-> NoError, spec |-> 0]
    ELSE get_spec_from(1, message)

get_spec(message) == get_spec_from(1, message)

\* the `set` branch of State.process, on the state dict
processSet(state, k, v) ==
    IF v = None
    THEN [raised |-> "AttributeError", state |-> state]
    ELSE IF lower(v) = DEL
         THEN IF k \in DOMAIN state.set
              THEN [raised |-> NoError,
                    state |-> [state EXCEPT !.set = dictDel(@, k)]]
              ELSE [raised |-> "KeyError", state |-> state]
         ELSE [raised |-> NoError,
               state |-> [state EXCEPT !.set = dictSet(@, k, v)]]

\* the `select-next` / `select-previous` branch: partials.find takes
\* (prts, key, value) and is called as find(prts, key), a TypeError
processCycle(state, partials, command, k) ==
    [raised |-> "TypeError", state |-> state]

\* processSelect storing the value without looking for its partial
processSelect_unchecked(state, partials, k, v) ==
    [raised |-> NoError,
     state |-> [state EXCEPT !.select = dictSet(@, k, v)]]

\* the `select` branch: `value.lower == cls.DEL` compares a bound method
\* with a str and is never true
processSelect(state, partials, k, v) ==
    LET candidate == find(partials, k, v)
    IN  IF candidate = 0
        THEN [raised |-> "MessageError", state |-> state]
        ELSE [raised |-> NoError,
              state |-> [state EXCEPT
                           !.select = dictSet(@, k, value(partials[candidate]))]]

\* the dispatch of State.process on the command token
dispatch(state, partials, command, k, v) ==
    IF command = SET
    THEN processSet(state, k, v)
    ELSE IF command \in {SELECT_NEXT, SELECT_PREVIOUS}
         THEN processCycle(state, partials, command, k)
         ELSE IF command = SELECT
              THEN processSelect(state, partials, k, v)
              ELSE [raised |-> NoError, state |-> state]

\* State.process(statePath, prts, message): [raised, file], the file being
\* the state file as the call leaves it
process(file, partials, message) ==
    LET fs == fetch_state(file, partials)
    IN  IF fs.raised # NoError
        THEN [raised |-> fs.raised, file |-> fs.file]
        ELSE IF message = << >>
             THEN [raised |-> NoError, file |-> fs.file]
             ELSE IF Len(message) < 2
                  THEN [raised |-> "ValueError", file |-> fs.file]
                  ELSE LET command == message[1]
                           k == message[2]
                           v == IF Len(message) > 2 THEN message[3] ELSE None
                           r == dispatch(fs.state, partials, command, k, v)
                       IN  IF r.raised # NoError
                           THEN [raised |-> r.raised, file |-> fs.file]
                           ELSE [raised |-> NoError, file |-> freeze(r.state)]

\* cli.verify_command(message): an empty message passes; otherwise the
\* number of tokens after the command must be what get_spec declares
verify_command(message) ==
    IF message = << >>
    THEN NoError
    ELSE LET spec == get_spec(message[1])
         IN  IF spec.raised # NoError
             THEN spec.raised
             ELSE IF Len(message) - 1 # spec.spec
                  THEN "MessageError"
                  ELSE NoError

(***************************************************************************)
(* lib.py: BuildDef                                                        *)
(*                                                                         *)
(* The disk of a watcher run: two source directories and a theme directory *)
(* with the files below.  A path is [dir, name]; paths sort by directory   *)
(* first ("d1" < "d2" < "t1"), then by name, as pathlib.Path does.         *)
(***************************************************************************)
Sources == <<"d1", "d2">>
Themes == <<"t1">>
SUFFIX == ".conf"
DirFiles ==
    [d \in {"d1", "d2", "t1"} |->
        CASE d = "d1" -> { [name |-> "scheme.dark.conf", suffix |-> ".conf"],
                           [name |-> "notes.txt", suffix |-> ".txt"] }
          [] d = "d2" -> { [name |-> "base.conf", suffix |-> ".conf"] }
          [] OTHER    -> { [name |-> "solar", suffix |-> ""] }]
DirRank(d) == CASE d = "d1" -> 1 [] d = "d2" -> 2 [] OTHER -> 3
FileRank(n) ==
    CASE n = "base.conf" -> 1 [] n = "notes.txt" -> 2
      [] n = "scheme.dark.conf" -> 3 [] OTHER -> 4
pathLt(a, b) ==
    \/ DirRank(a.dir) < DirRank(b.dir)
    \/ a.dir = b.dir /\ FileRank(a.name) < FileRank(b.name)

RECURSIVE sortedPaths(_)
sortedPaths(S) ==
    IF S = {} THEN << >>
    ELSE LET m == CHOOSE p \in S : \A q \in S \ {p} : pathLt(p, q)
         IN  <<m>> \o sortedPaths(S \ {m})

\* BuildDef.__init__(config, section): the settings are copied from the
\* section; check_sanity is not called
BuildDef(section) ==
    [name |-> section.name,
     sources |-> Sources,
     addheader |-> section.addheader,
     suffix |-> SUFFIX,
     themes |-> Themes,
     excludes |-> section.excludes,
     files |-> section.files,
     theme |-> section.theme,
     watchPaths |-> Themes \o Sources,
     lastFilename |-> None,
     lastBuild |-> None]

\* BuildDef.check_sanity
check_sanity(bd) ==
    IF bd.files # {} /\ bd.excludes # {} THEN "BuildDefError" ELSE NoError

\* IniConfig.make_build_defs: one BuildDef per builddef section
make_build_defs(sections) == [i \in DOMAIN sections |-> BuildDef(sections[i])]

\* BuildDef.needs_build: its first statement calls
\* self.matches(filename, watchPath), and matches takes (self, path): a
\* TypeError, whatever the event
needs_build(bd, filename, watchPath, time) ==
    [raised |-> "TypeError", value |-> FALSE]

\* the files of the theme directories named like the theme of bd
themePaths(bd) ==
    UNION { { [dir |-> bd.themes[i], name |-> f.name] :
                f \in { g \in DirFiles[bd.themes[i]] : g.name = bd.theme } }
            : i \in DOMAIN bd.themes }

\* get_theme returning the empty text where it should raise
get_theme_no_raise(bd) ==
    [raised |-> NoError, about |-> None,
     content |-> sortedPaths(themePaths(bd))]

\* BuildDef.get_theme: the texts of the files of the theme directories
\* named like the theme; BuildDefError, its message holding the theme,
\* when there is none
get_theme(bd) ==
    IF themePaths(bd) = {}
    THEN [raised |-> "BuildDefError", about |-> bd.theme, content |-> << >>]
    ELSE [raised |-> NoError, about |-> None,
          content |-> sortedPaths(themePaths(bd))]

\* BuildDef.get_config_parts: the files of the source directories that pass
\* the filters, sorted as paths
get_config_parts(bd) ==
    sortedPaths(
        UNION { { [dir |-> bd.sources[i], name |-> f.name] :
                    f \in { g \in DirFiles[bd.sources[i]] :
                              /\ g.name \notin bd.excludes
                              /\ g.suffix = bd.suffix
                              /\ (bd.files # {} => g.name \in bd.files) } }
                : i \in DOMAIN bd.sources })

Header == [dir |-> "", name |-> "header"]

\* BuildDef.build: [raised, about, out]; about is what the message of the
\* exception names; out is what is written to the target, a
\* list of the texts joined (each text named by the path it is read from).
\* lastBuild and lastFilename are not assigned.
build(bd) ==
    LET head == IF bd.addheader THEN <<Header>> ELSE << >>
        theme == IF bd.theme # None THEN get_theme(bd)
                 ELSE [raised |-> NoError, about |-> None, content |-> << >>]
    IN  IF theme.raised # NoError
        THEN [raised |-> theme.raised, about |-> theme.about, out |-> << >>]
        ELSE [raised |-> NoError, about |-> None,
              out |-> head \o theme.content \o get_config_parts(bd)]

(***************************************************************************)
(* lib.py: I3Configger                                                     *)
(***************************************************************************)
\* I3Configger.build: build() of every definition in turn; the first
\* exception ends it.  st is [raised, targets, built, outcome], outcome
\* being the last build() call: [def, raised, about, before].
RECURSIVE buildAll(_, _, _, _)
buildAll(defs, i, st, time) ==
    IF i > Len(defs) \/ st.raised # NoError THEN st
    ELSE LET r == build(defs[i])
             call == [def |-> i, raised |-> r.raised, about |-> r.about,
                      before |-> st.targets[i]]
         IN  IF r.raised # NoError
             THEN [st EXCEPT !.raised = r.raised, !.outcome = call]
             ELSE buildAll(defs, i + 1,
                           [st EXCEPT !.targets[i] = r.out,
                                      !.built[i] = [count |-> @.count + 1,
                                                    at |-> time,
                                                    trigger |-> None],
                                      !.outcome = call],
                           time)

\* IpcControl.notify_send(msg, urgency) as process_event calls it, with
\* the BuildDef as urgency: the argument list handed to subprocess holds
\* an object that is no str, a TypeError before notify-send is run
notify_send(urgency, ipc) == "TypeError"

\* the loop of I3Configger.process_event over the build definitions, then
\* IpcControl.restart_i3().  st is [raised, targets, built, rebuilt,
\* notified, refreshed], refreshed counting the calls of restart_i3, also
\* those that raise; ipc is the exception the i3 and notify-send
\* subprocesses answer with ("" when they succeed).
RECURSIVE processDefs(_, _, _, _, _)
processDefs(defs, i, st, event, ipc) ==
    IF st.raised # NoError THEN st
    ELSE IF i > Len(defs)
    THEN IF ipc # NoError
         THEN [st EXCEPT !.raised = ipc, !.refreshed = @ + 1]
         ELSE [st EXCEPT !.refreshed = @ + 1]
    ELSE LET nb == needs_build(defs[i], event.filename, event.watchPath,
                               event.time)
         IN  IF nb.raised # NoError
             THEN [st EXCEPT !.raised = nb.raised]
             ELSE IF ~nb.value
                  THEN processDefs(defs, i + 1, st, event, ipc)
                  ELSE LET r == build(defs[i])
                       IN  IF r.raised # NoError
                           THEN [st EXCEPT !.raised = r.raised]
                           ELSE LET done ==
                                      [st EXCEPT
                                         !.targets[i] = r.out,
                                         !.built[i] =
                                            [count |-> @.count + 1,
                                             at |-> event.time,
                                             trigger |-> event.filename],
                                         !.rebuilt = @ \cup {i}]
                                    sent == notify_send(defs[i], ipc)
                                IN  IF sent # NoError
                                    THEN [done EXCEPT !.raised = sent]
                                    ELSE processDefs(defs, i + 1,
                                            [done EXCEPT
                                                !.notified = @ \cup {i}],
                                            event, ipc)

process_event(defs, tg, bt, event, ipc) ==
    processDefs(defs, 1,
                [raised |-> NoError, targets |-> tg, built |-> bt,
                 rebuilt |-> {}, notified |-> {}, refreshed |-> 0],
                event, ipc)

(***************************************************************************)
(* Inputs of the selection engine                                          *)
(***************************************************************************)
Keys == {"bar", "scheme"}
Values == {"default", "dark", "light", "gone"}
Dicts(K, V) == UNION { [D -> V] : D \in SUBSET K }
ConditionalFiles == { i \in 1..NPool : Len(PoolFiles[i].selectors) > 1 }
MarkableFiles == { i \in ConditionalFiles : PoolFiles[i].selectors[1] = "scheme" }
ExcludeSets == { {}, {"scheme"}, {"bar"} }
NotCalled == [raised |-> "NotCalled", selector |-> EmptyDict,
              selected |-> << >>, bare |-> FALSE]
MaxCalls == 2

(***************************************************************************)
(* Inputs of the state store                                               *)
(***************************************************************************)
\* command tokens: what a command line can hold (str), and the constants
\* of class State a caller of State.process can pass as well
StrTokens ==
    { Str("select"), Str("set"), Str("select-next"), Str("select-previous"),
      Str("dunno") }
StateTokens == {SELECT, SET, SELECT_NEXT, SELECT_PREVIOUS}
MsgKeys == {"scheme", "host"}
MsgValues == {"light", "gone", "DEL"}
MessagesOf(tokens) ==
    {<< >>} \cup { <<c>> : c \in tokens }
            \cup { <<c, k>> : c \in tokens, k \in MsgKeys }
            \cup { <<c, k, v>> : c \in tokens, k \in MsgKeys, v \in MsgValues }
\* the partial lists and state files a run starts from
StateFounds == { {2, 3, 4}, {1, 2, 3, 4, 5} }
StateMarked == { {}, {3} }
InitSelects == { EmptyDict, [scheme |-> "dark"], [scheme |-> "light"],
                 [scheme |-> "gone"] }
InitSets == { EmptyDict, [scheme |-> "light"] }
NoEntry == [message |-> << >>, via |-> "none", raised |-> NoError,
            handled |-> FALSE, before |-> AbsentDoc]

(***************************************************************************)
(* Inputs of the watcher                                                   *)
(***************************************************************************)
Section(n, f, x, t) ==
    [name |-> n, addheader |-> TRUE, files |-> f, excludes |-> x, theme |-> t]
Sections ==
    { Section("plain", {}, {}, None),
      Section("only", {"base.conf"}, {}, None),
      Section("without", {}, {"base.conf"}, None),
      Section("both", {"base.conf"}, {"scheme.dark.conf"}, None),
      Section("themed", {}, {}, "solar"),
      Section("lost", {}, {}, "missing") }
MaxDefs == 2
Configs == UNION { [1..n -> Sections] : n \in 0..MaxDefs }
MaxBudget == 2
ErrorCap == 3
MaxTime == 3
MaxBuilds == 2
\* BUILD_DELAY = 0.1 s, in ticks of 0.05 s
BUILD_DELAY == 2
EventFiles == {"base.conf", "scheme.dark.conf", "notes.txt"}
EventDirs == {"d1", "t1"}
IpcAnswers == {NoError, "CalledProcessError"}
NoEvent == [filename |-> None, watchPath |-> None, time |-> 0,
            raised |-> NoError, rebuilt |-> {}, notified |-> {},
            refreshed |-> 0, seen |-> FALSE]
Unwritten == <<[dir |-> "", name |-> "unwritten"]>>
NeverBuilt == [count |-> 0, at |-> 0, trigger |-> None]

\* the watcher at rest, for the specifications that do not run it
WatchIdle ==
    /\ config = << >>
    /\ maxerrors = 0
    /\ buildDefs = << >>
    /\ targets = << >>
    /\ built = << >>
    /\ wpc = "new"
    /\ fatal = NoError
    /\ errors = 0
    /\ now = 0
    /\ lastEvent = NoEvent

\* no write of a target under way, no target read yet
NoWrite == [def |-> 0, out |-> << >>, before |-> << >>]
NotRead == [def |-> 0, content |-> << >>]
NoBuild == [def |-> 0, raised |-> NoError, about |-> None, before |-> << >>]

\* the caller of freeze() and fetch() at rest
NotFetched == [raised |-> "NotFetched", state |-> None]
DocIdle ==
    /\ held = Doc(EmptyDict, EmptyDict)
    /\ loaded = NotFetched
    /\ docpc = "held"
    /\ writing = NoWrite
    /\ observed = NotRead
    /\ outcome = NoBuild

(***************************************************************************)
(* SpecSelect: select() applied to every partial list and selector         *)
(***************************************************************************)
InitSelect ==
    /\ \E found \in (SUBSET (1..NPool)) \ {{}} :
       \E marked \in SUBSET MarkableFiles :
          /\ marked \subseteq found
          /\ prts = create(found, marked)
    /\ selector \in Dicts(Keys, Values)
    /\ selector0 = selector
    /\ excludes \in ExcludeSets
    /\ selOut = NotCalled
    /\ ncalls = 0
    /\ statePath = AbsentDoc
    /\ last = NoEntry
    /\ WatchIdle
    /\ DocIdle

\* a caller runs select(prts, selector, excludes) on its selector object
CallSelect ==
    /\ ncalls < MaxCalls
    /\ LET r == select(prts, selector, excludes, TRUE, TRUE)
       IN  /\ selOut' = r
           /\ selector' = r.selector
    /\ ncalls' = ncalls + 1
    /\ UNCHANGED <<docVars, ioVars, prts, selector0, excludes, stateVars,
                   watchVars>>

NextSelect == CallSelect

SpecSelect == InitSelect /\ [][NextSelect]_vars

(***************************************************************************)
(* Spec: messages sent to the state store, and selections seeded from it   *)
(***************************************************************************)
Init ==
    /\ \E found \in StateFounds : \E marked \in StateMarked :
          prts = create(found, marked)
    /\ selector = EmptyDict
    /\ selector0 = EmptyDict
    /\ excludes = {}
    /\ selOut = NotCalled
    /\ ncalls = 0
    /\ \/ statePath = AbsentDoc
       \/ \E sel \in InitSelects : \E st \in InitSets :
             statePath = freeze(Doc(sel, st))
    /\ last = NoEntry
    /\ WatchIdle
    /\ DocIdle

\* a message arrives over the command line: it is verified, then processed
SendMessage(message) ==
    LET bad == verify_command(message)
        r == process(statePath, prts, message)
    IN  /\ last' = [message |-> message, via |-> "send",
                    raised |-> IF bad # NoError THEN bad ELSE r.raised,
                    handled |-> (bad = NoError), before |-> statePath]
        /\ statePath' = IF bad # NoError THEN statePath ELSE r.file
        /\ selector' = EmptyDict
        /\ selector0' = EmptyDict
        /\ selOut' = NotCalled
        /\ ncalls' = 0
        /\ UNCHANGED <<docVars, ioVars, prts, excludes, watchVars>>

\* State.process is called with a message built from the constants of State
ProcessMessage(message) ==
    LET r == process(statePath, prts, message)
    IN  /\ last' = [message |-> message, via |-> "process",
                    raised |-> r.raised, handled |-> TRUE,
                    before |-> statePath]
        /\ statePath' = r.file
        /\ selector' = EmptyDict
        /\ selector0' = EmptyDict
        /\ selOut' = NotCalled
        /\ ncalls' = 0
        /\ UNCHANGED <<docVars, ioVars, prts, excludes, watchVars>>

\* a build reads the state file and hands its select dict to select()
SelectFromState ==
    /\ statePath.exists
    /\ ncalls = 0
    /\ LET state == fetch(statePath).state
           r == select(prts, state.select, excludes, TRUE, TRUE)
       IN  /\ selector0' = state.select
           /\ selector' = r.selector
           /\ selOut' = r
    /\ ncalls' = 1
    /\ UNCHANGED <<docVars, ioVars, prts, excludes, stateVars, watchVars>>

Next ==
    \/ \E message \in MessagesOf(StrTokens) : SendMessage(message)
    \/ \E message \in MessagesOf(StateTokens) : ProcessMessage(message)
    \/ SelectFromState

Spec == Init /\ [][Next]_vars

\* SpecValid: as Spec, from state files whose select entries each name a
\* partial of the list (or from no state file), the selection also run
\* with excludes
ValidLists == { create({2, 3, 4}, {3}), create({1, 2, 3, 4, 5}, {}) }
ValidExcludes == { {}, {"scheme"} }
ValidStrTokens == { Str("select"), Str("dunno") }

InitValid ==
    /\ prts \in ValidLists
    /\ selector = EmptyDict
    /\ selector0 = EmptyDict
    /\ excludes \in ValidExcludes
    /\ selOut = NotCalled
    /\ ncalls = 0
    /\ \/ statePath = AbsentDoc
       \/ \E sel \in InitSelects :
             /\ \A k \in DOMAIN sel : find(prts, k, sel[k]) # 0
             /\ statePath = freeze(Doc(sel, EmptyDict))
    /\ last = NoEntry
    /\ WatchIdle
    /\ DocIdle

NextValid ==
    \/ \E message \in MessagesOf(ValidStrTokens) : SendMessage(message)
    \/ \E message \in MessagesOf(StateTokens) : ProcessMessage(message)
    \/ SelectFromState

SpecValid == InitValid /\ [][NextValid]_vars

\* SpecSend: the command line alone
NextSend == \E message \in MessagesOf(StrTokens) : SendMessage(message)

SpecSend == Init /\ [][NextSend]_vars

(***************************************************************************)
(* SpecDoc: a caller holds a state dict, changes it, writes it with        *)
(* freeze() and reads the file with fetch()                                *)
(***************************************************************************)
DocKeys == {"host", "scheme"}
DocValues == {"light", "DEL"}
Docs == { Doc(sel, st) : sel \in Dicts(DocKeys, DocValues),
                         st \in Dicts(DocKeys, DocValues) }

InitDoc ==
    /\ prts = create({2}, {})
    /\ selector = EmptyDict
    /\ selector0 = EmptyDict
    /\ excludes = {}
    /\ selOut = NotCalled
    /\ ncalls = 0
    /\ \/ statePath = AbsentDoc
       \/ statePath = freeze(Doc([scheme |-> "light"], EmptyDict))
    /\ last = NoEntry
    /\ WatchIdle
    /\ held \in Docs
    /\ loaded = NotFetched
    /\ docpc = "held"
    /\ writing = NoWrite
    /\ observed = NotRead
    /\ outcome = NoBuild

\* freeze(statePath, held)
Freeze ==
    /\ statePath' = freeze(held)
    /\ docpc' = "frozen"
    /\ UNCHANGED <<ioVars, prts, selectVars, last, watchVars, held, loaded>>

\* fetch(statePath); "fetched" when it directly follows the freeze
Fetch ==
    /\ loaded' = fetch(statePath)
    /\ docpc' = IF docpc = "frozen" THEN "fetched" ELSE "held"
    /\ UNCHANGED <<ioVars, prts, selectVars, stateVars, watchVars, held>>

\* the caller changes an entry of the dict it holds: state[ns][k] = v
Amend(ns, k, v) ==
    /\ held' = [held EXCEPT ![ns] = dictSet(@, k, v)]
    /\ held' # held
    /\ docpc' = "held"
    /\ UNCHANGED <<ioVars, prts, selectVars, stateVars, watchVars, loaded>>

NextDoc ==
    \/ Freeze
    \/ Fetch
    \/ \E ns \in {"select", "set"}, k \in DocKeys, v \in DocValues :
          Amend(ns, k, v)

SpecDoc == InitDoc /\ [][NextDoc]_vars

(***************************************************************************)
(* SpecWatch: build definitions are made from the ini file, built, and     *)
(* rebuilt by the guarded watch loop                                       *)
(***************************************************************************)
InitWatch ==
    /\ prts = create({2}, {})
    /\ selector = EmptyDict
    /\ selector0 = EmptyDict
    /\ excludes = {}
    /\ selOut = NotCalled
    /\ ncalls = 0
    /\ statePath = AbsentDoc
    /\ last = NoEntry
    /\ config \in Configs
    /\ maxerrors \in 0..MaxBudget
    /\ buildDefs = << >>
    /\ targets = << >>
    /\ built = << >>
    /\ wpc = "new"
    /\ fatal = NoError
    /\ errors = 0
    /\ now = 0
    /\ lastEvent = NoEvent
    /\ DocIdle

\* IniConfig.__init__ and I3Configger.__init__
Construct ==
    /\ wpc = "new"
    /\ buildDefs' = make_build_defs(config)
    /\ targets' = [i \in DOMAIN config |-> Unwritten]
    /\ built' = [i \in DOMAIN config |-> NeverBuilt]
    /\ errors' = 0
    /\ wpc' = "ready"
    /\ UNCHANGED <<docVars, ioVars, prts, selectVars, stateVars, config,
                   maxerrors, fatal, now, lastEvent>>

\* I3Configger.build()
BuildAll ==
    /\ wpc = "ready"
    /\ \A i \in DOMAIN built : built[i].count < MaxBuilds
    /\ LET r == buildAll(buildDefs, 1,
                         [raised |-> NoError, targets |-> targets,
                          built |-> built, outcome |-> outcome], now)
       IN  /\ targets' = r.targets
           /\ outcome' = r.outcome
           /\ built' = r.built
           /\ fatal' = r.raised
           /\ wpc' = IF r.raised # NoError THEN "stopped" ELSE "ready"
    /\ UNCHANGED <<docVars, writing, observed, prts, selectVars, stateVars,
                   config, maxerrors, buildDefs, errors, now, lastEvent>>

\* I3Configger.watch_guarded(func) is entered.  get_events(), the
\* subscription to inotify, is not modelled: the loop is handed the events
\* of the watched directories one at a time.
StartWatch ==
    /\ wpc = "ready"
    /\ wpc' = "watching"
    /\ UNCHANGED <<docVars, ioVars, prts, selectVars, stateVars, config,
                   maxerrors, buildDefs, targets, built, fatal, errors, now,
                   lastEvent>>

\* one pass of the loop of watch_guarded: the event is processed; an
\* exception is counted, and RuntimeError raised when the count equals
\* maxerrors
WatchEvent(filename, watchPath, ipc) ==
    /\ wpc = "watching"
    /\ errors < ErrorCap
    /\ LET event == [filename |-> filename, watchPath |-> watchPath,
                     time |-> now]
           r == process_event(buildDefs, targets, built, event, ipc)
           failed == r.raised # NoError
           count == IF failed THEN errors + 1 ELSE errors
       IN  /\ targets' = r.targets
           /\ built' = r.built
           /\ errors' = count
           /\ lastEvent' = [filename |-> filename, watchPath |-> watchPath,
                            time |-> now, raised |-> r.raised,
                            rebuilt |-> r.rebuilt, notified |-> r.notified,
                            refreshed |-> r.refreshed, seen |-> TRUE]
           /\ IF failed /\ count = maxerrors
              THEN wpc' = "stopped" /\ fatal' = "RuntimeError"
              ELSE wpc' = wpc /\ fatal' = fatal
    /\ UNCHANGED <<docVars, ioVars, prts, selectVars, stateVars, config,
                   maxerrors, buildDefs, now>>

\* time passes
Tick ==
    /\ now < MaxTime
    /\ now' = now + 1
    /\ UNCHANGED <<docVars, ioVars, prts, selectVars, stateVars, config,
                   maxerrors, buildDefs, targets, built, wpc, fatal, errors,
                   lastEvent>>

NextWatch ==
    \/ Construct
    \/ BuildAll
    \/ StartWatch
    \/ \E f \in EventFiles, d \in EventDirs, ipc \in IpcAnswers :
          WatchEvent(f, d, ipc)
    \/ Tick

SpecWatch == InitWatch /\ [][NextWatch]_vars

(***************************************************************************)
(* SpecMain: the watcher as cli.main starts it (Builder there being class  *)
(* I3Configger): --watch runs watch() in the foreground, --daemon calls    *)
(* watch_guarded() in a daemon context                                     *)
(***************************************************************************)
\* main with --watch: builder.watch() is entered
StartPlain ==
    /\ wpc = "ready"
    /\ wpc' = "plain"
    /\ UNCHANGED <<docVars, ioVars, prts, selectVars, stateVars, config,
                   maxerrors, buildDefs, targets, built, fatal, errors, now,
                   lastEvent>>

\* one pass of the loop of watch(): the event is processed; an exception
\* leaves the loop and main (only KeyboardInterrupt is caught there)
PlainEvent(filename, watchPath, ipc) ==
    /\ wpc = "plain"
    /\ LET event == [filename |-> filename, watchPath |-> watchPath,
                     time |-> now]
           r == process_event(buildDefs, targets, built, event, ipc)
       IN  /\ targets' = r.targets
           /\ built' = r.built
           /\ lastEvent' = [filename |-> filename, watchPath |-> watchPath,
                            time |-> now, raised |-> r.raised,
                            rebuilt |-> r.rebuilt, notified |-> r.notified,
                            refreshed |-> r.refreshed, seen |-> TRUE]
           /\ IF r.raised # NoError
              THEN wpc' = "stopped" /\ fatal' = r.raised
              ELSE wpc' = wpc /\ fatal' = fatal
    /\ UNCHANGED <<docVars, ioVars, prts, selectVars, stateVars, config,
                   maxerrors, buildDefs, errors, now>>

\* main with --daemon: daemonize calls builder.watch_guarded() without the
\* argument func the method declares, a TypeError before the loop
StartDaemon ==
    /\ wpc = "ready"
    /\ wpc' = "stopped"
    /\ fatal' = "TypeError"
    /\ UNCHANGED <<docVars, ioVars, prts, selectVars, stateVars, config,
                   maxerrors, buildDefs, targets, built, errors, now,
                   lastEvent>>

NextMain ==
    \/ Construct
    \/ StartPlain
    \/ \E f \in EventFiles, d \in EventDirs, ipc \in IpcAnswers :
          PlainEvent(f, d, ipc)
    \/ StartDaemon
    \/ Tick

SpecMain == InitWatch /\ [][NextMain]_vars

\* SpecBuild: the program without --watch: the definitions are built
InitBuild == InitWatch /\ maxerrors = 0

NextBuild ==
    \/ Construct
    \/ BuildAll
    \/ Tick

SpecBuild == InitBuild /\ [][NextBuild]_vars

(***************************************************************************)
(* SpecWrite: build() writes its target with Path.write_text, which opens  *)
(* the file for writing (the file is truncated), writes the text and       *)
(* closes it, while the window manager may read the target at any moment   *)
(***************************************************************************)
InitWrite ==
    /\ prts = create({2}, {})
    /\ selector = EmptyDict
    /\ selector0 = EmptyDict
    /\ excludes = {}
    /\ selOut = NotCalled
    /\ ncalls = 0
    /\ statePath = AbsentDoc
    /\ last = NoEntry
    /\ config \in Configs
    /\ maxerrors = 0
    /\ buildDefs = make_build_defs(config)
    /\ targets = [i \in DOMAIN config |-> Unwritten]
    /\ built = [i \in DOMAIN config |-> NeverBuilt]
    /\ wpc = "ready"
    /\ fatal = NoError
    /\ errors = 0
    /\ now = 0
    /\ lastEvent = NoEvent
    /\ held = Doc(EmptyDict, EmptyDict)
    /\ loaded = NotFetched
    /\ docpc = "held"
    /\ writing = NoWrite
    /\ observed = NotRead
    /\ outcome = NoBuild

\* build() of definition i up to the open() of write_text: the text is
\* assembled, the target is opened with mode 'w' and is empty from then on
OpenTarget(i) ==
    /\ wpc = "ready"
    /\ writing = NoWrite
    /\ built[i].count < MaxBuilds
    /\ LET r == build(buildDefs[i])
       IN  IF r.raised # NoError
           THEN /\ fatal' = r.raised
                /\ wpc' = "stopped"
                /\ outcome' = [def |-> i, raised |-> r.raised,
                               about |-> r.about, before |-> targets[i]]
                /\ UNCHANGED <<targets, writing>>
           ELSE /\ targets' = [targets EXCEPT ![i] = << >>]
                /\ writing' = [def |-> i, out |-> r.out,
                               before |-> targets[i]]
                /\ UNCHANGED <<fatal, wpc, outcome>>
    /\ UNCHANGED <<docVars, observed, prts, selectVars, stateVars, config,
                   maxerrors, buildDefs, built, errors, now, lastEvent>>

\* a text larger than the buffer of the file object is flushed in pieces:
\* the target holds a longer part of the text, not yet all of it
FlushTarget(n) ==
    /\ writing # NoWrite
    /\ n > Len(targets[writing.def])
    /\ n < Len(writing.out)
    /\ targets' = [targets EXCEPT ![writing.def] = SubSeq(writing.out, 1, n)]
    /\ UNCHANGED <<docVars, ioVars, prts, selectVars, stateVars, config,
                   maxerrors, buildDefs, built, wpc, fatal, errors, now,
                   lastEvent>>

\* the rest of the text is written and the file closed: build() returns
CloseTarget ==
    /\ writing # NoWrite
    /\ targets' = [targets EXCEPT ![writing.def] = writing.out]
    /\ built' = [built EXCEPT ![writing.def] =
                    [count |-> @.count + 1, at |-> now, trigger |-> None]]
    /\ writing' = NoWrite
    /\ outcome' = [def |-> writing.def, raised |-> NoError, about |-> None,
                   before |-> writing.before]
    /\ UNCHANGED <<docVars, observed, prts, selectVars, stateVars, config,
                   maxerrors, buildDefs, wpc, fatal, errors, now, lastEvent>>

\* the window manager reads the target of definition i
ReadTarget(i) ==
    /\ observed' = [def |-> i, content |-> targets[i]]
    /\ observed' # observed
    /\ UNCHANGED <<docVars, writing, outcome, prts, selectVars, stateVars,
                   watchVars>>

MaxParts == 3

NextWrite ==
    \/ \E i \in DOMAIN buildDefs : OpenTarget(i)
    \/ \E n \in 1..MaxParts : FlushTarget(n)
    \/ CloseTarget
    \/ \E i \in DOMAIN buildDefs : ReadTarget(i)

SpecWrite == InitWrite /\ [][NextWrite]_vars

(***************************************************************************)
(* Claims about select()                                                   *)
(***************************************************************************)
Range(seq) == { seq[i] : i \in DOMAIN seq }

\* the conditional partials of the list whose key and value are (k, v)
Matching(partials, k, v) ==
    { p \in Range(partials) : conditional(p) /\ key(p) = k /\ value(p) = v }

\* what the first call was given: no excludes, and every key of the
\* selector names the value of a conditional partial of the list
C1_Pre ==
    /\ ncalls = 1
    /\ excludes = {}
    /\ \A k \in DOMAIN selector0 : Matching(prts, k, selector0[k]) # {}

C1_Expected ==
    { p \in Range(prts) :
        \/ ~conditional(p)
        \/ key(p) \in DOMAIN selector0 /\ value(p) = selector0[key(p)]
        \/ key(p) \notin DOMAIN selector0 /\ isDefault(p) }

\* C1: with no excludes and a selector whose every key matches a
\* conditional partial, select returns exactly the partial matching each
\* selector key, every unconditional partial and every default partial
\* whose key the selector does not name.
C1_SelectReturnsExactly ==
    C1_Pre => /\ selOut.raised = NoError
              /\ Range(selOut.selected) = C1_Expected

\* C3: when the selector holds a key that no conditional partial matches
\* with the selector's value, select raises ConfigError and the error
\* names that key; it never returns a result.
C3_UnmatchedSelectorFails ==
    \A k \in DOMAIN selector0 :
        (ncalls = 1 /\ Matching(prts, k, selector0[k]) = {})
            => /\ selOut.raised = "ConfigError"
               /\ k \in DOMAIN selOut.selector

\* C12: a second call of select with the same partial list, the same
\* selector object and the same excludes ends as the first did: the same
\* ordered output, or the same error.
C12_SelectIdempotent ==
    [][ (ncalls = 1 /\ ncalls' = 2)
          => /\ selOut'.raised = selOut.raised
             /\ selOut'.selected = selOut.selected
             /\ selOut'.bare = selOut.bare ]_vars

\* C21: select always returns a list of partials, never a bare partial:
\* the empty list when nothing is selected, a list of one when one partial
\* is selected.
C21_AlwaysList ==
    (ncalls > 0 /\ selOut.raised = NoError) => ~selOut.bare

\* the partials of the list are in the order of their names
C21_Ordered(seq) ==
    \A i \in DOMAIN seq : \A j \in DOMAIN seq :
        i < j => NameRank(seq[i].name) < NameRank(seq[j].name)

\* C21 as amended: when select returns, the partials selected are in the
\* order of their names; it returns them as a list, but the partial
\* itself, not a list, when exactly one is selected.
C21_ListUnlessOne ==
    (ncalls > 0 /\ selOut.raised = NoError)
        => /\ C21_Ordered(selOut.selected)
           /\ selOut.bare <=> (Len(selOut.selected) = 1)

\* of a list of several partials select has selected the second alone,
\* and returned it bare
C21_Witness ==
    /\ ncalls = 1
    /\ selOut.raised = NoError
    /\ selOut.bare
    /\ Len(prts) > 1
    /\ selOut.selected = <<prts[2]>>

\* C22: after select has returned or raised, the selector dict of the
\* caller holds the keys and values it held before the call.
C22_SelectorUntouched ==
    ncalls > 0 => selector = selector0

\* C24: the result of select holds no conditional partial whose key is in
\* excludes, whatever the selector names and whether or not the partial is
\* a default; and it holds every unconditional partial of the list.
C24_ExcludedNeverSelected ==
    /\ \A p \in Range(selOut.selected) :
          conditional(p) => key(p) \notin excludes
    /\ (ncalls > 0 /\ selOut.raised = NoError)
          => \A p \in Range(prts) :
                ~conditional(p) => p \in Range(selOut.selected)

\* select has returned with the key 'scheme' excluded: the default of
\* 'scheme' was left out, the default of 'bar' and base.conf were selected
C24_Witness ==
    /\ ncalls = 1
    /\ excludes = {"scheme"}
    /\ selOut.raised = NoError
    /\ \E p \in Range(prts) : key(p) = "scheme" /\ isDefault(p)
    /\ { p.name : p \in Range(selOut.selected) }
          = {"bar.default.conf", "base.conf"}

(***************************************************************************)
(* Claims about the state store                                            *)
(***************************************************************************)
HasName(seq, name) == \E i \in DOMAIN seq : seq[i].name = name

\* the document an existing state file holds, as a reader parses it
Persisted(file) == json_load(file.text)

\* the message is `name` with n arguments, the name given as a str or as
\* the constant of State
IsCommand(m, name, n) ==
    /\ Len(m) = n + 1
    /\ m[1] \in {Str(name), Tup(name, n)}

\* the values of the partials of the list with key k, in list order
Candidates(k) == { value(p) : p \in { q \in Range(prts) : key(q) = k } }

C2_Scenario ==
    /\ { p.name : p \in Range(prts) }
         = {"base.conf", "scheme.dark.conf", "scheme.light.conf"}
    /\ \A p \in Range(prts) : p.marker <=> (p.name = "scheme.dark.conf")
    /\ IsCommand(last.message, "select", 2)
    /\ last.message[2] = "scheme"
    /\ last.message[3] = "light"
    /\ last.raised = NoError
    /\ ncalls = 1

\* C2: with the partials base, scheme.dark (default marker) and
\* scheme.light, once the message [select, scheme, light] has been
\* processed without error, the selection seeded from the state file holds
\* base and scheme.light and does not hold scheme.dark.
C2_SelectThenBuild ==
    C2_Scenario => /\ selOut.raised = NoError
                   /\ HasName(selOut.selected, "base.conf")
                   /\ HasName(selOut.selected, "scheme.light.conf")
                   /\ ~HasName(selOut.selected, "scheme.dark.conf")

\* the message just handled was `first` on key k, starting from a valid
\* current value, and the one handled now is `second` on the same key
C4_Pair(first, second, k) ==
    /\ IsCommand(last.message, first, 1)
    /\ last.message[2] = k
    /\ last.before.exists
    /\ k \in DOMAIN Persisted(last.before).select
    /\ Persisted(last.before).select[k] \in Candidates(k)
    /\ last' # last
    /\ IsCommand(last'.message, second, 1)
    /\ last'.message[2] = k

C4_Undone(k) ==
    /\ last.raised = NoError
    /\ last'.raised = NoError
    /\ statePath'.exists
    /\ k \in DOMAIN Persisted(statePath').select
    /\ Persisted(statePath').select[k] = Persisted(last.before).select[k]

\* C4: select-next followed by select-previous on a key whose current value
\* is one of its candidates, and select-previous followed by select-next,
\* are both applied and leave select[key] at its original value.
C4_NextPreviousInverse ==
    [][ \A k \in MsgKeys :
          (\/ C4_Pair("select-next", "select-previous", k)
           \/ C4_Pair("select-previous", "select-next", k))
             => C4_Undone(k) ]_vars

\* C5: on an existing state file, set(key, v) completes without error;
\* when v is 'del' in any case it leaves set without the key (a no-op when
\* the key was absent), otherwise it leaves set[key] = v.
C5_SetOrDelete ==
    (last.via # "none" /\ IsCommand(last.message, "set", 2)
                       /\ last.before.exists)
        => LET k == last.message[2]
               v == last.message[3]
           IN  /\ last.raised = NoError
               /\ Persisted(statePath).select = Persisted(last.before).select
               /\ Persisted(statePath).set =
                     IF lower(v) = DEL
                     THEN dictDel(Persisted(last.before).set, k)
                     ELSE dictSet(Persisted(last.before).set, k, v)

\* the first partial of the list with key k that satisfies test, 0 if none
FirstWith(k, test(_)) ==
    LET hits == { i \in DOMAIN prts : key(prts[i]) = k /\ test(prts[i]) }
    IN  IF hits = {} THEN 0 ELSE CHOOSE i \in hits : \A j \in hits : i <= j

AnyPartial(p) == TRUE

\* the initial selection: for every conditional key but 'i3status', the
\* value of its default partial, or else of its first partial
C13_Seed ==
    [k \in { key(p) : p \in { q \in Range(prts) : conditional(q) } }
              \ {I3STATUS} |->
        IF FirstWith(k, isDefault) # 0
        THEN value(prts[FirstWith(k, isDefault)])
        ELSE value(prts[FirstWith(k, AnyPartial)])]

\* C13: reading the state (a call with the empty message) when there is
\* no state file does not fail, and leaves a state file whose set mapping
\* is empty and whose select mapping holds, for every conditional key but
\* 'i3status', the key's default value or else its first value.
C13_InitialState ==
    (last.via # "none" /\ last.message = << >> /\ ~last.before.exists)
        => /\ last.raised = NoError
           /\ statePath.exists
           /\ Persisted(statePath).set = EmptyDict
           /\ Persisted(statePath).select = C13_Seed

\* the values of the partials of the list with key k, in list order
RECURSIVE CandidateSeq(_, _)
CandidateSeq(k, i) ==
    IF i > Len(prts) THEN << >>
    ELSE (IF key(prts[i]) = k THEN <<value(prts[i])>> ELSE << >>)
            \o CandidateSeq(k, i + 1)

IndexOf(seq, x) == CHOOSE i \in DOMAIN seq : seq[i] = x

\* the candidate after (step 1) or before (step -1) the current one,
\* wrapping at both ends; the current one is select[k] or the last candidate
C15_Cycled(sel, k, step) ==
    LET items == CandidateSeq(k, 1)
        current == IF k \in DOMAIN sel THEN sel[k] ELSE items[Len(items)]
        at == IndexOf(items, current) + step
    IN  items[IF at > Len(items) THEN 1 ELSE IF at < 1 THEN Len(items) ELSE at]

\* the state a command leaves in memory, by the table of the protocol
C15_Applied(state, m) ==
    IF IsCommand(m, "set", 2)
    THEN [state EXCEPT !.set = IF lower(m[3]) = DEL THEN dictDel(@, m[2])
                                ELSE dictSet(@, m[2], m[3])]
    ELSE IF IsCommand(m, "select", 2)
    THEN [state EXCEPT !.select = dictSet(@, m[2], m[3])]
    ELSE IF IsCommand(m, "select-next", 1)
    THEN [state EXCEPT !.select = dictSet(@, m[2], C15_Cycled(@, m[2], 1))]
    ELSE [state EXCEPT !.select = dictSet(@, m[2], C15_Cycled(@, m[2], -1))]

C15_IsMutation(m) ==
    \/ IsCommand(m, "set", 2)
    \/ IsCommand(m, "select", 2)
    \/ IsCommand(m, "select-next", 1)
    \/ IsCommand(m, "select-previous", 1)

\* C15: after every command (select, select-next, select-previous, set)
\* processed without error, the state file holds the state the command
\* leaves: the state before it with the command's mutation applied.
C15_MutationPersisted ==
    (/\ last.via # "none"
     /\ last.handled
     /\ last.raised = NoError
     /\ C15_IsMutation(last.message))
        => /\ statePath.exists
           /\ Persisted(statePath) =
                 C15_Applied(IF last.before.exists
                             THEN Persisted(last.before)
                             ELSE Doc(C13_Seed, EmptyDict),
                             last.message)

KnownNames == {"select", "set", "select-next", "select-previous"}
DeclaredArity ==
    [n \in KnownNames |-> IF n \in {"select", "set"} THEN 2 ELSE 1]
NameOf(token) == IF "str" \in DOMAIN token THEN token.str ELSE token.name

\* the failures the protocol names: a select of a (key, value) no partial
\* has, a select-next or select-previous on a key without candidates, an
\* unknown command name, a wrong number of arguments
C6_Fails(m) ==
    /\ m # << >>
    /\ \/ IsCommand(m, "select", 2) /\ find(prts, m[2], m[3]) = 0
       \/ /\ IsCommand(m, "select-next", 1) \/ IsCommand(m, "select-previous", 1)
          /\ Candidates(m[2]) = {}
       \/ NameOf(m[1]) \notin KnownNames
       \/ /\ NameOf(m[1]) \in KnownNames
          /\ Len(m) - 1 # DeclaredArity[NameOf(m[1])]

\* C6: a failing command ends with an error raised to its caller and
\* leaves the state file exactly as it was.
C6_FailureSurfacedNothingWritten ==
    (last.via # "none" /\ C6_Fails(last.message))
        => /\ last.raised # NoError
           /\ statePath = last.before

\* a message is well formed: empty, or a known name followed by as many
\* arguments as the command declares
C10_WellFormed(m) ==
    \/ m = << >>
    \/ \E n \in KnownNames : /\ m[1] = Str(n)
                             /\ Len(m) - 1 = DeclaredArity[n]

C11_RoundTrip ==
    docpc = "fetched" => /\ loaded.raised = NoError
                         /\ loaded.state = held

\* a document with entries in both mappings has been written over another
\* one and read back
C11_Witness ==
    /\ docpc = "fetched"
    /\ held = Doc([host |-> "DEL", scheme |-> "light"], [scheme |-> "DEL"])
    /\ loaded.raised = NoError

(***************************************************************************)
(* Claims about the watcher                                                *)
(***************************************************************************)
\* the event is a change of a file with the definition's suffix in one of
\* the directories the definition watches
Watched(bd, event) ==
    /\ \E f \in DirFiles[event.watchPath] :
          f.name = event.filename /\ f.suffix = bd.suffix
    /\ \E i \in DOMAIN bd.watchPaths : bd.watchPaths[i] = event.watchPath

\* C7: for a definition that has built before, a change of a watched file
\* rebuilds the definition when the file is another one than the file of
\* the last build or when BUILD_DELAY has passed since the last build, and
\* does not rebuild it otherwise: a burst on one file rebuilds once.
C7_Debounce ==
    [][ \A i \in DOMAIN buildDefs :
          (/\ wpc = "watching"
           /\ lastEvent' # lastEvent
           /\ built[i].count > 0
           /\ Watched(buildDefs[i], lastEvent'))
             => ((i \in lastEvent'.rebuilt)
                   <=> \/ lastEvent'.filename # built[i].trigger
                       \/ lastEvent'.time - built[i].at >= BUILD_DELAY) ]_vars

\* C8: the guarded watch loop stops with the 'giving up' RuntimeError as
\* soon as the failed events number maxerrors (at the first failure when
\* maxerrors is 0), and it stops in no other way.
C8_BudgetStopsLoop ==
    /\ (wpc = "watching" /\ errors > 0) => errors < maxerrors
    /\ (wpc = "stopped" /\ lastEvent.seen)
          => (fatal = "RuntimeError" /\ errors = maxerrors)

\* C14: whenever the window manager reads a target file, also while
\* build() is writing it, it reads the complete previous output or the
\* complete new output, never an empty or partly written file.
C14_ReaderSeesWholeFile ==
    observed # NotRead
        => observed.content \in {Unwritten, build(buildDefs[observed.def]).out}

\* no file of the theme directories of bd has the name of its theme
C19_ThemeMissing(bd) ==
    /\ bd.theme # None
    /\ \A i \in DOMAIN bd.themes :
          \A f \in DirFiles[bd.themes[i]] : f.name # bd.theme

C16_BuildRecorded ==
    /\ \A i \in DOMAIN buildDefs :
          built[i].count > 0 => buildDefs[i].lastBuild # None
    /\ lastEvent.seen
          => \A i \in DOMAIN buildDefs :
                LET nb == needs_build(buildDefs[i], lastEvent.filename,
                                      lastEvent.watchPath, lastEvent.time)
                IN  (nb.raised = NoError /\ nb.value)
                       => /\ i \in lastEvent.rebuilt
                          /\ buildDefs[i].lastBuild = lastEvent.time
                          /\ buildDefs[i].lastFilename = lastEvent.filename
                          /\ i \in lastEvent.notified

\* the suffix of the file names events carry
SuffixOf(filename) == IF filename = "notes.txt" THEN ".txt" ELSE ".conf"

\* the file of the event has the definition's suffix and changed in one
\* of the definition's source or theme directories
C17_Matches(bd, event) ==
    /\ SuffixOf(event.filename) = bd.suffix
    /\ \/ \E i \in DOMAIN bd.sources : bd.sources[i] = event.watchPath
       \/ \E i \in DOMAIN bd.themes : bd.themes[i] = event.watchPath

\* C17: on every event, needs_build of a definition that has never built
\* returns true exactly when the file has the definition's suffix and
\* changed in one of its source or theme directories, and needs_build of
\* any definition returns false when the suffix or the directory does not
\* match.
C17_NeedsBuildFirst ==
    lastEvent.seen
        => \A i \in DOMAIN buildDefs :
              LET bd == buildDefs[i]
                  nb == needs_build(bd, lastEvent.filename,
                                    lastEvent.watchPath, lastEvent.time)
              IN  /\ bd.lastBuild = None
                        => /\ nb.raised = NoError
                           /\ nb.value <=> C17_Matches(bd, lastEvent)
                  /\ ~C17_Matches(bd, lastEvent)
                        => /\ nb.raised = NoError
                           /\ ~nb.value

\* C18: on every event handed to process_event the window manager is
\* asked to refresh exactly once, after the last build definition.
C18_RefreshOncePerEvent ==
    lastEvent.seen => lastEvent.refreshed = 1

\* C20: when the processing of an event fails and the errors counted,
\* this one included, are fewer than maxerrors, the error is counted and
\* the watch loop goes on to the next event.
C20_ErrorKeepsLoop ==
    [][ (/\ wpc \in {"watching", "plain"}
         /\ lastEvent' # lastEvent
         /\ lastEvent'.raised # NoError
         /\ errors + 1 < maxerrors)
            => /\ errors' = errors + 1
               /\ wpc' = wpc ]_vars

\* a part of an output is the text of a file of a source directory, or
\* of a theme directory
C23_IsFragment(part) == \E i \in DOMAIN Sources : Sources[i] = part.dir
C23_IsTheme(part) == \E i \in DOMAIN Themes : Themes[i] = part.dir

\* C23: in the output of a build the fragments are in the order of their
\* file names, whatever source directories they come from, and the parts
\* are in the order header, theme content, fragments.
C23_OutputOrder ==
    \A i \in DOMAIN buildDefs :
        built[i].count > 0
            => LET out == targets[i]
               IN  /\ \A a \in DOMAIN out : \A b \in DOMAIN out :
                         (/\ a < b
                          /\ C23_IsFragment(out[a])
                          /\ C23_IsFragment(out[b]))
                            => FileRank(out[a].name) < FileRank(out[b].name)
                   /\ \A a \in DOMAIN out : out[a] = Header => a = 1
                   /\ \A a \in DOMAIN out : \A b \in DOMAIN out :
                         (C23_IsTheme(out[a]) /\ C23_IsFragment(out[b]))
                            => a < b

\* C9: no BuildDef object has both its files list and its excludes set
\* populated.
C9_FiltersExclusive ==
    \A i \in DOMAIN buildDefs :
        ~(buildDefs[i].files # {} /\ buildDefs[i].excludes # {})

====
